---- MODULE Spec2Model ----
(***************************************************************************)
(* Model of tools/refresh_titan_index.py: the one-shot batch job that      *)
(* patches the dashboard's index tables and chart fragments with the       *)
(* September values and repackages the archive.                            *)
(*                                                                         *)
(* Text is a sequence of one-character strings.  Five glyphs are written   *)
(* as named one-element tokens: "RED" (U+1F7E5), "GREEN" (U+1F7E2),        *)
(* "NEUTRAL" (U+2796), "EMDASH" (U+2014) and "TAB".                        *)
(*                                                                         *)
(* A float is a two-limb fixed-point record [m, e]: its value is           *)
(* m * 10^-3 + e * 10^-10 with 0 <= e < 10^7.  Every number of the model   *)
(* has at most ten decimals and no number sits on a rounding tie of the    *)
(* two-decimal format, so the limbs compute what the doubles compute.      *)
(***************************************************************************)
EXTENDS Integers, Sequences, FiniteSets, TLC

VARIABLES pc, exitCode, input, index, frag, outZip, entries, passes, prev,
          call, result

vars == <<pc, exitCode, input, index, frag, outZip, entries, passes, prev,
          call, result>>

\* pc        where the run (or the component on its own) stands
\* exitCode  the process's exit status, Running until it ends
\* input     the invocation directory as the run finds it
\* index     index.html of the working directory
\* frag      the chart fragment of the working directory
\* outZip    the output archive: "absent", "old", "partial" or "new"
\* entries   the files written to the new archive so far
\* passes    how many times the Table Patcher has run on the document
\* prev      the document or fragment the latest pass started from
\* call      the arguments of the function under study
\* result    what it returned

\* Python's None, as a float and as a string
NoNum == [none |-> TRUE]

NoKey == <<"None">>

\* ---------------------------------------------------------------- text

At(s, i) == s[i + 1]

SetAt(s, i, v) == [s EXCEPT ![i + 1] = v]

StartsWith(s, p) == Len(s) >= Len(p) /\ SubSeq(s, 1, Len(p)) = p

Contains(s, k) == \E i \in 1..(Len(s) - Len(k) + 1) : SubSeq(s, i, i + Len(k) - 1) = k

RECURSIVE Remove(_, _)
Remove(s, c) ==
    IF s = <<>> THEN <<>>
    ELSE IF Head(s) = c THEN Remove(Tail(s), c)
    ELSE <<Head(s)>> \o Remove(Tail(s), c)

RECURSIVE ReplaceAll(_, _, _)
ReplaceAll(s, old, new) ==
    IF s = <<>> THEN <<>>
    ELSE IF StartsWith(s, old) THEN new \o ReplaceAll(SubSeq(s, Len(old) + 1, Len(s)), old, new)
    ELSE <<Head(s)>> \o ReplaceAll(Tail(s), old, new)

IsWs(c) == c \in {" ", "TAB"}

RECURSIVE LStrip(_)
LStrip(s) == IF s # <<>> /\ IsWs(Head(s)) THEN LStrip(Tail(s)) ELSE s

RECURSIVE RStrip(_)
RStrip(s) == IF s # <<>> /\ IsWs(s[Len(s)]) THEN RStrip(SubSeq(s, 1, Len(s) - 1)) ELSE s

Strip(s) == RStrip(LStrip(s))

RECURSIVE CollapseWs(_)
CollapseWs(s) ==
    IF s = <<>> THEN <<>>
    ELSE IF IsWs(Head(s)) THEN <<" ">> \o CollapseWs(LStrip(Tail(s)))
    ELSE <<Head(s)>> \o CollapseWs(Tail(s))

UPPER == <<"A","B","C","D","E","F","G","H","I","J","K","L","M","N","O","P","Q","R","S","T","U","V","W","X","Y","Z">>

LOWER == <<"a","b","c","d","e","f","g","h","i","j","k","l","m","n","o","p","q","r","s","t","u","v","w","x","y","z">>

LowerChar(c) ==
    IF \E i \in 1..26 : UPPER[i] = c
    THEN LOWER[CHOOSE i \in 1..26 : UPPER[i] = c]
    ELSE c

UpperChar(c) ==
    IF \E i \in 1..26 : LOWER[i] = c
    THEN UPPER[CHOOSE i \in 1..26 : LOWER[i] = c]
    ELSE c

Lower(s) == [i \in 1..Len(s) |-> LowerChar(s[i])]

norm(s) == Lower(Strip(CollapseWs(s)))

\* ------------------------------------------------------------- numbers

LimbBase == 10 * 1000 * 1000

N(milli) == [m |-> milli, e |-> 0]

Sub(a, b) ==
    IF a.e >= b.e THEN [m |-> a.m - b.m, e |-> a.e - b.e]
    ELSE [m |-> a.m - b.m - 1, e |-> a.e - b.e + LimbBase]

Neg(a) == Sub(N(0), a)

IsNeg(a) == a.m < 0

IsPos(a) == a.m > 0 \/ (a.m = 0 /\ a.e > 0)

\* abs(x) < 1e-9, ten units of the low limb
AbsBelowEps(a) == (a.m = 0 /\ a.e < 10) \/ (a.m = -1 /\ a.e > LimbBase - 10)

IsInteger(a) == a.e = 0 /\ a.m % 1000 = 0

DIGITS == <<"0","1","2","3","4","5","6","7","8","9">>

IsDigit(c) == \E i \in 1..10 : DIGITS[i] = c

DigitVal(c) == (CHOOSE i \in 1..10 : DIGITS[i] = c) - 1

RECURSIVE IntText(_)
IntText(n) == IF n < 10 THEN <<DIGITS[n + 1]>> ELSE IntText(n \div 10) \o <<DIGITS[(n % 10) + 1]>>

RECURSIVE PadText(_, _)
PadText(n, width) == IF width = 0 THEN <<>> ELSE PadText(n \div 10, width - 1) \o <<DIGITS[(n % 10) + 1]>>

RECURSIVE RStripChar(_, _)
RStripChar(s, c) == IF s # <<>> /\ s[Len(s)] = c THEN RStripChar(SubSeq(s, 1, Len(s) - 1), c) ELSE s

RECURSIVE IntVal(_)
IntVal(s) == IF s = <<>> THEN 0 ELSE IntVal(SubSeq(s, 1, Len(s) - 1)) * 10 + DigitVal(s[Len(s)])

\* float(text) of an optionally signed decimal literal
Float(sign, intDigits, fracDigits) ==
    LET padded == fracDigits \o <<"0","0","0","0","0","0","0","0","0","0">>
        mag == [m |-> IntVal(intDigits) * 1000 + IntVal(SubSeq(padded, 1, 3)),
                e |-> IntVal(SubSeq(padded, 4, 10))]
    IN  IF sign = "-" THEN Neg(mag) ELSE mag

\* f"{x:.2f}".rstrip("0").rstrip(".")
fmt(x) ==
    LET h == (x.m + 5) \div 10
        H == IF h < 0 THEN -h ELSE h
        body == IntText(H \div 100) \o <<".">> \o PadText(H % 100, 2)
        text == (IF IsNeg(x) THEN <<"-">> ELSE <<>>) \o body
    IN  RStripChar(RStripChar(text, "0"), ".")

\* str(int(x)) of a float that is_integer()
IntRepr(x) ==
    (IF IsNeg(x) THEN <<"-">> ELSE <<>>) \o IntText((IF IsNeg(x) THEN Neg(x) ELSE x).m \div 1000)

\* str(x) of a float
Repr(x) ==
    LET mag == IF IsNeg(x) THEN Neg(x) ELSE x
        whole == IntText(mag.m \div 1000)
        frac == RStripChar(PadText(mag.m % 1000, 3) \o PadText(mag.e, 7), "0")
    IN  (IF IsNeg(x) THEN <<"-">> ELSE <<>>) \o whole
            \o (IF frac = <<>> THEN <<>> ELSE <<".">> \o frac)

RECURSIVE DigitRun(_, _)
DigitRun(t, j) == IF j <= Len(t) /\ IsDigit(t[j]) THEN 1 + DigitRun(t, j + 1) ELSE 0

\* the match of \d*\.?\d+ anchored at j: [ok, int, frac]
NumBody(t, j) ==
    LET a == DigitRun(t, j)
        b == IF j + a <= Len(t) /\ t[j + a] = "." THEN DigitRun(t, j + a + 1) ELSE 0
    IN  IF b > 0
        THEN [ok |-> TRUE, int |-> SubSeq(t, j, j + a - 1), frac |-> SubSeq(t, j + a + 1, j + a + b)]
        ELSE IF a > 0
        THEN [ok |-> TRUE, int |-> SubSeq(t, j, j + a - 1), frac |-> <<>>]
        ELSE [ok |-> FALSE, int |-> <<>>, frac |-> <<>>]

\* re.search(r"[-+]?\d*\.?\d+", t) from position i on, then float of the match
RECURSIVE SearchNum(_, _)
SearchNum(t, i) ==
    IF i > Len(t) THEN NoNum
    ELSE IF t[i] \in {"-", "+"} /\ NumBody(t, i + 1).ok
    THEN Float(t[i], NumBody(t, i + 1).int, NumBody(t, i + 1).frac)
    ELSE IF NumBody(t, i).ok
    THEN Float("+", NumBody(t, i).int, NumBody(t, i).frac)
    ELSE SearchNum(t, i + 1)

parse_num(txt) ==
    IF Contains(txt, <<"EMDASH">>) THEN NoNum
    ELSE LET t1 == Remove(Remove(Remove(txt, "RED"), "GREEN"), "NEUTRAL")
             t2 == Strip(Remove(Remove(Remove(t1, "$"), "%"), ","))
         IN  SearchNum(t2, 1)

\* ---------------------------------------------------------- fixed tables

SEPT == <<
    [k |-> <<"3","0","-","Y","e","a","r"," ","M","o","r","t","g","a","g","e"," ","R","a","t","e"," ","(","%",")">>, v |-> N(6500)],
    [k |-> <<"A","v","g"," ","H","o","m","e"," ","P","r","i","c","e"," ","(","$",")">>, v |-> N(422400000)],
    [k |-> <<"D","J","I","A">>, v |-> N(45621290)],
    [k |-> <<"S","&","P"," ","5","0","0">>, v |-> N(6502080)],
    [k |-> <<"N","A","S","D","A","Q">>, v |-> N(21707690)],
    [k |-> <<"U","n","e","m","p","l","o","y","m","e","n","t"," ","R","a","t","e"," ","(","%",")">>, v |-> N(4300)],
    [k |-> <<"C","o","n","s","u","m","e","r"," ","C","o","n","f","i","d","e","n","c","e">>, v |-> N(97400)],
    [k |-> <<"P","r","e","s","i","d","e","n","t","i","a","l"," ","A","p","p","r","o","v","a","l"," ","(","%",")">>, v |-> N(44100)],
    [k |-> <<"A","v","g"," ","G","a","s"," ","P","r","i","c","e"," ","(","$","/","g","a","l",")">>, v |-> N(3204)],
    [k |-> <<"B","i","g"," ","M","a","c"," ","(","$",")">>, v |-> N(5790)],
    [k |-> <<"M","i","l","k"," ","(","$","/","g","a","l",")">>, v |-> N(4162)],
    [k |-> <<"E","g","g","s"," ","(","$","/","d","o","z","e","n",")">>, v |-> N(3280)] >>

GOOD_WHEN_DOWN == {
    <<"3","0","-","y","e","a","r"," ","m","o","r","t","g","a","g","e"," ","r","a","t","e"," ","(","%",")">>, <<"a","v","g"," ","h","o","m","e"," ","p","r","i","c","e"," ","(","$",")">>,
    <<"h","o","m","e"," ","p","r","i","c","e","-","t","o","-","i","n","c","o","m","e"," ","r","a","t","i","o">>, <<"b","i","g"," ","m","a","c"," ","(","$",")">>,
    <<"a","v","g"," ","g","a","s"," ","p","r","i","c","e"," ","(","$","/","g","a","l",")">>, <<"m","i","l","k"," ","(","$","/","g","a","l",")">>, <<"e","g","g","s"," ","(","$","/","d","o","z","e","n",")">>,
    <<"u","n","e","m","p","l","o","y","m","e","n","t"," ","r","a","t","e"," ","(","%",")">> }

ALIASES == <<
    [k |-> <<"a","v","e","r","a","g","e"," ","h","o","m","e"," ","p","r","i","c","e"," ","(","$",")">>, v |-> <<"A","v","g"," ","H","o","m","e"," ","P","r","i","c","e"," ","(","$",")">>],
    [k |-> <<"a","v","g"," ","g","a","s"," ","p","r","i","c","e"," ","(","$","/","g","a","l",")">>, v |-> <<"A","v","g"," ","G","a","s"," ","P","r","i","c","e"," ","(","$","/","g","a","l",")">>],
    [k |-> <<"g","a","s"," ","p","r","i","c","e"," ","(","a","v","g",","," ","$","/","g","a","l",")">>, v |-> <<"A","v","g"," ","G","a","s"," ","P","r","i","c","e"," ","(","$","/","g","a","l",")">>],
    [k |-> <<"b","i","g"," ","m","a","c"," ","p","r","i","c","e"," ","(","$",")">>, v |-> <<"B","i","g"," ","M","a","c"," ","(","$",")">>],
    [k |-> <<"m","i","l","k"," ","(","a","v","g",","," ","$","/","g","a","l",")">>, v |-> <<"M","i","l","k"," ","(","$","/","g","a","l",")">>],
    [k |-> <<"e","g","g","s"," ","(","a","v","g",","," ","$","/","d","o","z","e","n",")">>, v |-> <<"E","g","g","s"," ","(","$","/","d","o","z","e","n",")">>],
    [k |-> <<"p","r","e","s","i","d","e","n","t","i","a","l"," ","a","p","p","r","o","v","a","l"," ","(","%",")">>, v |-> <<"P","r","e","s","i","d","e","n","t","i","a","l"," ","A","p","p","r","o","v","a","l"," ","(","%",")">>],
    [k |-> <<"c","o","n","s","u","m","e","r"," ","c","o","n","f","i","d","e","n","c","e"," ","i","n","d","e","x">>, v |-> <<"C","o","n","s","u","m","e","r"," ","C","o","n","f","i","d","e","n","c","e">>],
    [k |-> <<"3","0","-","y","e","a","r"," ","f","i","x","e","d"," ","m","o","r","t","g","a","g","e"," ","r","a","t","e"," ","(","%",")">>, v |-> <<"3","0","-","Y","e","a","r"," ","M","o","r","t","g","a","g","e"," ","R","a","t","e"," ","(","%",")">>] >>

InSEPT(k) == \E i \in 1..Len(SEPT) : SEPT[i].k = k

SeptValue(k) == SEPT[CHOOSE i \in 1..Len(SEPT) : SEPT[i].k = k].v

\* ALIASES.get(nname)
AliasGet(nname) ==
    IF \E i \in 1..Len(ALIASES) : ALIASES[i].k = nname
    THEN ALIASES[CHOOSE i \in 1..Len(ALIASES) : ALIASES[i].k = nname].v
    ELSE NoKey

RECURSIVE MapKeyFrom(_, _)
MapKeyFrom(nname, i) ==
    IF i > Len(SEPT) THEN AliasGet(nname)
    ELSE IF norm(SEPT[i].k) = nname THEN SEPT[i].k
    ELSE MapKeyFrom(nname, i + 1)

\* map_key with the canonical names compared as written, not normalized
map_key_unnormalized(nname) ==
    IF InSEPT(nname) THEN nname ELSE AliasGet(nname)

map_key(nname) == MapKeyFrom(nname, 1)

MARKET_WORDS == { <<"d","j","i","a">>, <<"n","a","s","d","a","q">>, <<"s","&","p">>, <<"c","o","n","f","i","d","e","n","c","e">>, <<"a","p","p","r","o","v","a","l">>, <<"i","n","c","o","m","e">> }

COST_WORDS == { <<"p","r","i","c","e">>, <<"r","a","t","e">>, <<"m","o","r","t","g","a","g","e">>, <<"r","a","t","i","o">> }

good_when_down(ind_name) ==
    LET n == norm(ind_name)
    IN  IF n \in GOOD_WHEN_DOWN THEN TRUE
        ELSE IF \E k \in MARKET_WORDS : Contains(n, k) THEN FALSE
        ELSE IF \E k \in COST_WORDS : Contains(n, k) THEN TRUE
        ELSE FALSE

\* ------------------------------------------------------- Table Patcher
\* A table is [thead, headerTr, tbody, labelTh, headers, rows]: whether it
\* has a <thead>, whether the <th> cells sit in a <tr>, whether the data
\* rows sit in a <tbody>, whether each data row's label cell is a <th>
\* rather than a <td>; headers are the texts of the thead's <th> cells and
\* rows the texts of every cell of every data row, label cell first.
\* Indices are the code's, counted from 0; -1 stands for None.

NoIdx == 0 - 1

SEP == <<"S","e","p"," ","1">>

FEB == <<"F","e","b"," ","1">>

AUG == <<"A","u","g"," ","1">>

DASH == <<"EMDASH">>

\* get_text(" ", strip=True) of a cell holding one text node
get_text(cell) == Strip(cell)

RECURSIVE IndexFrom(_, _, _)
IndexFrom(headers, h, i) ==
    IF i >= Len(headers) THEN NoIdx
    ELSE IF At(headers, i) = h THEN i
    ELSE IndexFrom(headers, h, i + 1)

\* headers.index(h), guarded by "h in headers"
HeaderIndex(headers, h) == IndexFrom(headers, h, 0)

RECURSIVE OverallFrom(_, _)
OverallFrom(headers, i) ==
    IF i >= Len(headers) THEN NoIdx
    ELSE IF StartsWith(norm(At(headers, i)), <<"o","v","e","r","a","l","l">>) THEN i
    ELSE OverallFrom(headers, i + 1)

\* next((i for i,h in enumerate(headers) if norm(h).startswith("overall")), None)
OverallIndex(headers) == OverallFrom(headers, 0)

HeaderTexts(t) == [i \in 1..Len(t.headers) |-> get_text(t.headers[i])]

\* the guard of the table loop: a thead, and a first header reading "indicator"
IsIndicatorTable(t) ==
    /\ t.thead
    /\ t.headers # <<>>
    /\ norm(HeaderTexts(t)[1]) = <<"i","n","d","i","c","a","t","o","r">>

\* tr.find_all("td")
Tds(t, row) == IF t.labelTh THEN Tail(row) ELSE row

WithTds(t, row, tds) == IF t.labelTh THEN <<Head(row)>> \o tds ELSE tds

InsertAt(s, i, v) == SubSeq(s, 1, i) \o <<v>> \o SubSeq(s, i + 1, Len(s))

\* the exceptions of the insertion: no <tr> in the thead, no <tbody>, or a
\* row with no cell at overall_idx-1
InsertRaises(t) ==
    LET overall_idx == OverallIndex(HeaderTexts(t))
    IN  \/ ~t.headerTr
        \/ ~t.tbody
        \/ /\ overall_idx # NoIdx
           /\ \E r \in 1..Len(t.rows) : overall_idx - 1 >= Len(Tds(t, t.rows[r]))

InsertRow(t, row, overall_idx) ==
    IF overall_idx # NoIdx
    THEN WithTds(t, row, InsertAt(Tds(t, row), overall_idx, DASH))
    ELSE row \o <<DASH>>

\* the new header cell and one placeholder cell per row of the tbody
InsertSep(t) ==
    LET overall_idx == OverallIndex(HeaderTexts(t))
    IN  [t EXCEPT
           !.headers = IF overall_idx # NoIdx
                       THEN InsertAt(t.headers, overall_idx, SEP)
                       ELSE t.headers \o <<SEP>>,
           !.rows = [r \in 1..Len(t.rows) |-> InsertRow(t, t.rows[r], overall_idx)]]

\* the emoji expression of both annotations
TrendEmoji(delta, gwd) ==
    IF (IF gwd THEN IsNeg(delta) ELSE IsPos(delta)) THEN "GREEN"
    ELSE IF AbsBelowEps(delta) THEN "NEUTRAL"
    ELSE "RED"

\* the polarity both annotations of a row use
RowPolarity(ind_name) == good_when_down(ind_name)

\* the cell text of the new period's value
AnnotateValue(val, aug_val, gwd) ==
    LET emoji == IF aug_val # NoNum THEN TrendEmoji(Sub(val, aug_val), gwd) ELSE "NEUTRAL"
    IN  <<emoji, " ">> \o fmt(val)

\* the cell text of the Overall column
AnnotateDelta(latest_val, feb_val, gwd) ==
    IF latest_val = NoNum \/ feb_val = NoNum THEN DASH
    ELSE LET diff == Sub(latest_val, feb_val)
             emoji_over == TrendEmoji(diff, gwd)
             sign == IF IsPos(diff) THEN <<"+">> ELSE <<>>
         IN  <<emoji_over, " ">> \o sign \o fmt(diff)

\* the first half of the row loop: the new period's cell
WriteValue(tds, sep_idx, aug_idx) ==
    LET ind_name == get_text(At(tds, 0))
        mkey == map_key(norm(ind_name))
    IN  IF sep_idx - 1 < Len(tds) /\ mkey # NoKey /\ mkey # <<>> /\ InSEPT(mkey)
        THEN LET val == SeptValue(mkey)
                 aug_val == IF aug_idx # NoIdx /\ aug_idx # 0 /\ aug_idx - 1 < Len(tds)
                            THEN parse_num(get_text(At(tds, aug_idx - 1)))
                            ELSE NoNum
             IN  SetAt(tds, sep_idx - 1, AnnotateValue(val, aug_val, RowPolarity(ind_name)))
        ELSE tds

\* the second half of the row loop: the Overall cell; ind_name is the label
\* read before the first half wrote anything
WriteOverall(tds, ind_name, sep_idx, feb_idx, overall_idx) ==
    IF overall_idx # NoIdx /\ overall_idx - 1 < Len(tds)
    THEN LET feb_val == IF feb_idx - 1 < Len(tds)
                        THEN parse_num(get_text(At(tds, feb_idx - 1)))
                        ELSE NoNum
             latest_val == IF sep_idx - 1 < Len(tds)
                           THEN parse_num(get_text(At(tds, sep_idx - 1)))
                           ELSE NoNum
         IN  SetAt(tds, overall_idx - 1, AnnotateDelta(latest_val, feb_val, RowPolarity(ind_name)))
    ELSE tds

PatchRow(t, row, sep_idx, feb_idx, aug_idx, overall_idx) ==
    LET tds == Tds(t, row)
    IN  IF tds = <<>> THEN row
        ELSE WithTds(t, row,
                 WriteOverall(WriteValue(tds, sep_idx, aug_idx), get_text(At(tds, 0)),
                              sep_idx, feb_idx, overall_idx))

\* table.find_all("tr")[1:] drops the header row, or the first data row
\* when the thead holds no <tr>
FirstPatched(t) == IF t.headerTr THEN 1 ELSE 2

PatchRows(t) ==
    LET headers == HeaderTexts(t)
        sep_idx == HeaderIndex(headers, SEP)
        feb_idx == IF HeaderIndex(headers, FEB) # NoIdx THEN HeaderIndex(headers, FEB) ELSE 1
        aug_idx == HeaderIndex(headers, AUG)
        overall_idx == OverallIndex(headers)
    IN  [t EXCEPT !.rows = [r \in 1..Len(t.rows) |->
            IF r >= FirstPatched(t)
            THEN PatchRow(t, t.rows[r], sep_idx, feb_idx, aug_idx, overall_idx)
            ELSE t.rows[r]]]

HasSep(t) == HeaderIndex(HeaderTexts(t), SEP) # NoIdx

\* one iteration of the table loop: [raised, table]
PatchTable(t) ==
    IF ~IsIndicatorTable(t) THEN [raised |-> FALSE, table |-> t]
    ELSE IF ~HasSep(t) /\ InsertRaises(t) THEN [raised |-> TRUE, table |-> t]
    ELSE [raised |-> FALSE, table |-> PatchRows(IF HasSep(t) THEN t ELSE InsertSep(t))]

\* ------------------------------------------------------ Series Patcher
\* A chart fragment is [name, labels, actual]: the file's name and the text
\* of the first "const labels = [...];" and "const actual = [...];" array
\* literals, brackets included, or NoDecl where the pattern finds none.
\* A parsed element is JsNull, JsStr(text) or JsNum(float).

NoDecl == <<"NoDecl">>

QUOTE == "\""

BACKSLASH == "\\"

JsNull == [t |-> "null"]

JsStr(s) == [t |-> "str", s |-> s]

JsNum(x) == [t |-> "num", x |-> x]

RECURSIVE CharRun(_, _, _)
CharRun(s, j, c) == IF j <= Len(s) /\ s[j] = c THEN 1 + CharRun(s, j + 1, c) ELSE 0

\* the lookahead [^\\[\\]]*\\] of the split pattern, at position j
SplitLookahead(s, j) ==
    /\ j <= Len(s)
    /\ s[j] \notin {BACKSLASH, "["}
    /\ LET r == CharRun(s, j + 1, "]")
       IN  /\ j + 2 + r <= Len(s)
           /\ s[j + 1 + r] = BACKSLASH
           /\ s[j + 2 + r] = "]"

RECURSIVE SplitAt(_, _)
SplitAt(s, i) ==
    IF i > Len(s) THEN <<s>>
    ELSE IF s[i] = "," /\ ~SplitLookahead(s, i + 1)
    THEN <<SubSeq(s, 1, i - 1)>> \o SplitAt(SubSeq(s, i + 1, Len(s)), 1)
    ELSE SplitAt(s, i + 1)

\* re.split(r',(?![^\\[\\]]*\\])', inner)
SplitParts(inner) == SplitAt(inner, 1)

\* whether float(s) succeeds, for the plain decimal literals of the model
IsFloatText(s) ==
    LET body == IF s # <<>> /\ Head(s) \in {"-", "+"} THEN Tail(s) ELSE s
        a == DigitRun(body, 1)
        dot == a + 1 <= Len(body) /\ body[a + 1] = "."
        b == IF dot THEN DigitRun(body, a + 2) ELSE 0
    IN  /\ a + b > 0
        /\ Len(body) = a + (IF dot THEN 1 ELSE 0) + b

FloatOf(s) ==
    LET sign == IF Head(s) = "-" THEN "-" ELSE "+"
        body == IF Head(s) \in {"-", "+"} THEN Tail(s) ELSE s
        a == DigitRun(body, 1)
    IN  Float(sign, SubSeq(body, 1, a), SubSeq(body, a + 2, Len(body)))

ParseElement(p) ==
    LET s == Strip(p)
    IN  IF Lower(s) = <<"n","u","l","l">> THEN JsNull
        ELSE IF s # <<>> /\ Head(s) \in {"'", QUOTE} /\ s[Len(s)] \in {"'", QUOTE}
        THEN JsStr(SubSeq(s, 2, Len(s) - 1))
        ELSE IF IsFloatText(s) THEN JsNum(FloatOf(s))
        ELSE JsStr(s)

parse_js_array(js) ==
    LET outer == Strip(js)
        inner == Strip(SubSeq(outer, 2, Len(outer) - 1))
    IN  IF inner = <<>> THEN <<>>
        ELSE LET parts == SplitParts(inner)
             IN  [i \in 1..Len(parts) |-> ParseElement(parts[i])]

conv(x) ==
    IF x = JsNull THEN <<"n","u","l","l">>
    ELSE IF x.t = "str" THEN <<QUOTE>> \o ReplaceAll(x.s, <<QUOTE>>, <<BACKSLASH, QUOTE>>) \o <<QUOTE>>
    ELSE IF IsInteger(x.x) THEN IntRepr(x.x)
    ELSE Repr(x.x)

RECURSIVE JoinFrom(_, _)
JoinFrom(lst, i) ==
    IF i > Len(lst) THEN <<>>
    ELSE (IF i > 1 THEN <<","," ">> ELSE <<>>) \o conv(lst[i]) \o JoinFrom(lst, i + 1)

to_js_array(lst) == <<"[">> \o JoinFrom(lst, 1) \o <<"]">>

\* the filename rules of patch_chart, first match wins
IndicatorOfBase(base) ==
    IF StartsWith(base, <<"3","0","-","y","e","a","r","-","m","o","r","t","g","a","g","e","-","r","a","t","e","-">>) THEN <<"3","0","-","Y","e","a","r"," ","M","o","r","t","g","a","g","e"," ","R","a","t","e"," ","(","%",")">>
    ELSE IF base = <<"d","j","i","a">> THEN <<"D","J","I","A">>
    ELSE IF base = <<"n","a","s","d","a","q">> THEN <<"N","A","S","D","A","Q">>
    ELSE IF base \in {<<"s","&","p","-","5","0","0">>, <<"s","&","p"," ","5","0","0">>, <<"s","&","p","_","5","0","0">>} THEN <<"S","&","P"," ","5","0","0">>
    ELSE IF Contains(base, <<"u","n","e","m","p","l","o","y","m","e","n","t">>) THEN <<"U","n","e","m","p","l","o","y","m","e","n","t"," ","R","a","t","e"," ","(","%",")">>
    ELSE IF Contains(base, <<"c","o","n","s","u","m","e","r","-","c","o","n","f","i","d","e","n","c","e">>) THEN <<"C","o","n","s","u","m","e","r"," ","C","o","n","f","i","d","e","n","c","e">>
    ELSE IF Contains(base, <<"p","r","e","s","i","d","e","n","t","i","a","l","-","a","p","p","r","o","v","a","l">>) THEN <<"P","r","e","s","i","d","e","n","t","i","a","l"," ","A","p","p","r","o","v","a","l"," ","(","%",")">>
    ELSE IF Contains(base, <<"a","v","g","-","h","o","m","e","-","p","r","i","c","e">>) \/ Contains(base, <<"a","v","e","r","a","g","e","-","h","o","m","e","-","p","r","i","c","e">>)
    THEN <<"A","v","g"," ","H","o","m","e"," ","P","r","i","c","e"," ","(","$",")">>
    ELSE IF Contains(base, <<"a","v","g","-","g","a","s","-","p","r","i","c","e">>) THEN <<"A","v","g"," ","G","a","s"," ","P","r","i","c","e"," ","(","$","/","g","a","l",")">>
    ELSE IF Contains(base, <<"b","i","g","-","m","a","c">>) THEN <<"B","i","g"," ","M","a","c"," ","(","$",")">>
    ELSE IF Contains(base, <<"m","i","l","k">>) THEN <<"M","i","l","k"," ","(","$","/","g","a","l",")">>
    ELSE IF Contains(base, <<"e","g","g","s">>) THEN <<"E","g","g","s"," ","(","$","/","d","o","z","e","n",")">>
    ELSE NoKey

ChartBase(name) == Lower(ReplaceAll(name, <<".","h","t","m","l">>, <<>>))

\* float(SEPT[ind_key]) if ind_key in SEPT else None
ChartValue(name) ==
    LET ind_key == IndicatorOfBase(ChartBase(name))
    IN  IF InSEPT(ind_key) THEN JsNum(SeptValue(ind_key)) ELSE JsNull

RECURSIVE Pad(_, _)
Pad(actual, n) == IF Len(actual) < n THEN Pad(actual \o <<JsNull>>, n) ELSE actual

\* the labels and actual lists as patch_chart leaves them: [labels, actual]
PatchSeries(name, labels0, actual0) ==
    LET labels == IF \E i \in 1..Len(labels0) : labels0[i] = JsStr(SEP)
                  THEN labels0 ELSE labels0 \o <<JsStr(SEP)>>
        val == ChartValue(name)
        actual == Pad(actual0, Len(labels) - 1)
    IN  [labels |-> labels,
         actual |-> IF Len(actual) = Len(labels) - 1 THEN actual \o <<val>>
                    ELSE [actual EXCEPT ![Len(actual)] = val]]

patch_chart(f) ==
    IF f.labels = NoDecl \/ f.actual = NoDecl THEN f
    ELSE LET p == PatchSeries(f.name, parse_js_array(f.labels), parse_js_array(f.actual))
         IN  [f EXCEPT !.labels = to_js_array(p.labels), !.actual = to_js_array(p.actual)]

\* --------------------------------------------------- Narrative Patcher
\* The index document is [table, heading, list, style]: its one table, the
\* text of its one h2/h3/h4 heading (NoKey when it has none), the list after
\* the heading ("old", "none" or "new") and the heading's style attribute.

IsNarrativeHeading(heading) ==
    /\ heading # NoKey
    /\ Contains(ReplaceAll(Lower(Strip(heading)), <<"RSQUO">>, <<"'">>), <<"w","h","o","'","s"," ","b","e","t","t","e","r"," ","v","s","."," ","w","o","r","s","e">>)

patch_narrative(d) ==
    IF IsNarrativeHeading(d.heading)
    THEN [d EXCEPT !.list = "new",
                   !.style = IF Contains(d.style, <<"c","o","l","o","r",":">>) THEN d.style
                             ELSE Strip(d.style \o <<" ","c","o","l","o","r",":","#","f","b","b","f","2","4",";">>)]
    ELSE d

\* the table loop and the write of index.html: [raised, doc]
patch_tables(d) ==
    [raised |-> PatchTable(d.table).raised,
     doc |-> [d EXCEPT !.table = PatchTable(d.table).table]]

\* --------------------------------------------------------------- inputs

MaxPad == 2

MaxPasses == 3

MaxRows == 2

NoFile == [nofile |-> TRUE]

Running == 0 - 1

HeaderRows == {
    <<<<"I","n","d","i","c","a","t","o","r">>, FEB, AUG, <<"O","v","e","r","a","l","l">>>>,
    <<<<"I","n","d","i","c","a","t","o","r">>, FEB, SEP>>,
    <<<<"I","n","d","i","c","a","t","o","r">>, FEB, AUG, SEP, <<"O","v","e","r","a","l","l">>>>,
    <<<<"I","n","d","i","c","a","t","o","r">>, FEB, AUG>>,
    <<<<"I","n","d","i","c","a","t","o","r">>, <<"O","v","e","r","a","l","l">>, SEP>>,
    <<<<"I","n","d","i","c","a","t","o","r">>, SEP, FEB, <<"O","v","e","r","a","l","l">>>>,
    <<<<" ","I","N","D","I","C","A","T","O","R">>, <<"J","a","n"," ","1">>, AUG, <<"O","v","e","r","a","l","l"," ","(","n","e","t",")">>>>,
    <<<<"N","a","m","e">>, FEB>> }

RowLabels == {
    <<"D","J","I","A">>, <<"S","&","P"," ","5","0","0">>, <<"3","0","-","Y","e","a","r"," ","M","o","r","t","g","a","g","e"," ","R","a","t","e"," ","(","%",")">>, <<"A","v","g"," ","H","o","m","e"," ","P","r","i","c","e"," ","(","$",")">>,
    <<"a","v","e","r","a","g","e"," ","h","o","m","e"," ","p","r","i","c","e"," ","(","$",")">>, <<"M","i","l","k"," ","(","a","v","g",","," ","$","/","g","a","l",")">>, <<"E","g","g","s"," ","(","$","/","d","o","z","e","n",")">>, <<"G","D","P"," ","G","r","o","w","t","h">> }

CellTexts == {
    <<"4","2","0","0","0">>, <<"6",".","0">>, <<"6",".","5">>, DASH, <<"$","4","0","0",",","0","0","0">>, <<"GREEN"," ","4","4",",","0","0","0",".","5">> }

FewLabels == { <<"D","J","I","A">>, <<"3","0","-","Y","e","a","r"," ","M","o","r","t","g","a","g","e"," ","R","a","t","e"," ","(","%",")">>, <<"G","D","P"," ","G","r","o","w","t","h">> }

FewTexts == { <<"4","2","0","0","0">>, <<"6",".","0">>, DASH }

\* a row aligned with n header cells: the label, then f and a alternating
MkRow(n, lbl, f, a) == <<lbl>> \o [j \in 1..(n - 1) |-> IF j % 2 = 1 THEN f ELSE a]

MkTable(h, rows) ==
    [thead |-> TRUE, headerTr |-> TRUE, tbody |-> TRUE, labelTh |-> FALSE,
     headers |-> h, rows |-> rows]

RowSeqs(S, n) == [1..n -> S]

OneRowTables ==
    { MkTable(h, <<MkRow(Len(h), l, f, a)>>) :
        h \in HeaderRows, l \in RowLabels, f \in CellTexts, a \in CellTexts }

FewRows(h) == { MkRow(Len(h), l, f, a) : l \in FewLabels, f \in FewTexts, a \in {<<"6",".","5">>} }

ManyRowTables ==
    UNION { { MkTable(h, rows) : rows \in RowSeqs(FewRows(h), n) } :
            h \in HeaderRows, n \in 2..MaxRows }

FewRowTables == UNION { { MkTable(h, <<r>>) : r \in FewRows(h) } : h \in HeaderRows }

\* the same tables in other shapes: no thead, th cells outside a tr, rows
\* outside a tbody, th label cells, a last row one cell short
ShapedTables ==
    UNION { { [t EXCEPT !.thead = FALSE], [t EXCEPT !.headerTr = FALSE],
              [t EXCEPT !.tbody = FALSE], [t EXCEPT !.labelTh = TRUE] } :
            t \in FewRowTables }
    \cup { [t EXCEPT !.rows[Len(t.rows)] = SubSeq(@, 1, Len(@) - 1)] :
           t \in FewRowTables \cup ManyRowTables }

Tables == OneRowTables \cup ManyRowTables \cup ShapedTables

Headings == { NoKey, <<"W","h","o","RSQUO","s"," ","B","e","t","t","e","r"," ","v","s","."," ","W","o","r","s","e">>, <<"W","H","O","'","S"," ","B","E","T","T","E","R"," ","V","S","."," ","W","O","R","S","E","?">>, <<"S","u","m","m","a","r","y">> }

MkDoc(t, heading, style) == [table |-> t, heading |-> heading, list |-> "old", style |-> style]

ChartNames == {
    <<"3","0","-","y","e","a","r","-","m","o","r","t","g","a","g","e","-","r","a","t","e","-","2","0","2","5",".","h","t","m","l">>, <<"d","j","i","a",".","h","t","m","l">>, <<"D","J","I","A",".","h","t","m","l">>, <<"n","a","s","d","a","q",".","h","t","m","l">>,
    <<"s","&","p","-","5","0","0",".","h","t","m","l">>, <<"u","n","e","m","p","l","o","y","m","e","n","t","-","r","a","t","e",".","h","t","m","l">>, <<"c","o","n","s","u","m","e","r","-","c","o","n","f","i","d","e","n","c","e",".","h","t","m","l">>,
    <<"p","r","e","s","i","d","e","n","t","i","a","l","-","a","p","p","r","o","v","a","l",".","h","t","m","l">>, <<"a","v","e","r","a","g","e","-","h","o","m","e","-","p","r","i","c","e",".","h","t","m","l">>, <<"a","v","g","-","g","a","s","-","p","r","i","c","e",".","h","t","m","l">>,
    <<"b","i","g","-","m","a","c",".","h","t","m","l">>, <<"m","i","l","k",".","h","t","m","l">>, <<"e","g","g","s","-","d","o","z","e","n",".","h","t","m","l">>, <<"g","d","p",".","h","t","m","l">>, <<"d","j","i","a","-","h","i","s","t","o","r","y",".","h","t","m","l">> }

LabelDecls == {
    NoDecl, <<"[","]">>, <<"[","\"","F","e","b"," ","1","\"",","," ","\"","A","u","g"," ","1","\"","]">>,
    <<"[","\"","F","e","b"," ","1","\"",","," ","\"","A","u","g"," ","1","\"",","," ","\"","S","e","p"," ","1","\"","]">>,
    <<"[","\"","S","e","p"," ","1","\"",","," ","\"","O","c","t"," ","1","\"","]">>,
    <<"[","\"","F","e","b"," ","1",","," ","2","0","2","5","\"",","," ","\"","A","u","g"," ","1","\"","]">>,
    <<"["," ","'","F","e","b"," ","1","'"," ","]">> }

ActualDecls == {
    NoDecl, <<"[","]">>, <<"[","1","]">>, <<"[","1",","," ","2","]">>, <<"[","1",","," ","2",".","5","0",","," ","3","]">>, <<"[","-","0",".","5",","," ","n","u","l","l","]">>,
    <<"[","n","u","l","l",","," ","7",".","5",","," ","8",","," ","9","]">> }

Fragments == { [name |-> n, labels |-> l, actual |-> a] :
               n \in ChartNames, l \in LabelDecls, a \in ActualDecls }

\* ---------------------------------------------------------------- Spec
\* One run of main().  input is the invocation directory as the run finds
\* it: the baseline archive and whether an output archive is there already.

RunTables == {
    MkTable(<<<<"I","n","d","i","c","a","t","o","r">>, FEB, AUG, <<"O","v","e","r","a","l","l">>>>,
            <<MkRow(4, <<"D","J","I","A">>, <<"4","2","0","0","0">>, <<"4","4",",","0","0","0",".","5">>)>>),
    MkTable(<<<<"I","n","d","i","c","a","t","o","r">>, FEB, SEP>>, <<MkRow(3, <<"D","J","I","A">>, <<"4","2","0","0","0">>, DASH)>>),
    [MkTable(<<<<"I","n","d","i","c","a","t","o","r">>, FEB, AUG, <<"O","v","e","r","a","l","l">>>>,
             <<MkRow(4, <<"D","J","I","A">>, <<"4","2","0","0","0">>, <<"4","4",",","0","0","0",".","5">>)>>) EXCEPT !.tbody = FALSE],
    [MkTable(<<<<"I","n","d","i","c","a","t","o","r">>, FEB, AUG>>,
             <<MkRow(3, <<"G","D","P"," ","G","r","o","w","t","h">>, <<"6",".","0">>, <<"6",".","5">>)>>) EXCEPT !.headerTr = FALSE],
    MkTable(<<<<"I","n","d","i","c","a","t","o","r">>, FEB, AUG, <<"O","v","e","r","a","l","l">>>>, << <<<<"M","i","l","k"," ","(","a","v","g",","," ","$","/","g","a","l",")">>, <<"6",".","0">>>> >>),
    MkTable(<<<<"N","a","m","e">>, FEB>>, <<MkRow(2, <<"D","J","I","A">>, <<"4","2","0","0","0">>, DASH)>>) }

RunFragments == {
    NoFile,
    [name |-> <<"d","j","i","a",".","h","t","m","l">>, labels |-> <<"[","\"","F","e","b"," ","1","\"",","," ","\"","A","u","g"," ","1","\"","]">>,
     actual |-> <<"[","1",","," ","2","]">>],
    [name |-> <<"g","d","p",".","h","t","m","l">>, labels |-> <<"[","\"","F","e","b"," ","1","\"",","," ","\"","A","u","g"," ","1","\"","]">>,
     actual |-> <<"[","1","]">>],
    [name |-> <<"m","i","l","k",".","h","t","m","l">>, labels |-> NoDecl, actual |-> <<"[","1",","," ","2","]">>] }

Archives ==
    { [exists |-> FALSE, index |-> NoFile, chart |-> NoFile] }
    \cup { [exists |-> TRUE, index |-> NoFile, chart |-> c] : c \in RunFragments }
    \cup { [exists |-> TRUE, index |-> MkDoc(t, h, s), chart |-> c] :
           t \in RunTables, h \in Headings, s \in {<<>>, <<"c","o","l","o","r",":","r","e","d",";">>}, c \in RunFragments }

Idle ==
    /\ passes = 0 /\ prev = NoFile /\ call = NoFile /\ result = NoFile

Init ==
    /\ pc = "start"
    /\ exitCode = Running
    /\ input \in { [zip |-> z, out |-> o] : z \in Archives, o \in {"absent", "old"} }
    /\ index = NoFile
    /\ frag = NoFile
    /\ outZip = input.out
    /\ entries = <<>>
    /\ Idle

\* lines 116-118: the baseline archive must exist
CheckBaseline ==
    /\ pc = "start"
    /\ IF input.zip.exists
       THEN pc' = "extract" /\ exitCode' = exitCode
       ELSE pc' = "aborted" /\ exitCode' = 1
    /\ UNCHANGED <<input, index, frag, outZip, entries, passes, prev, call, result>>

\* lines 120-124: the archive is unpacked into a fresh working directory
Extract ==
    /\ pc = "extract"
    /\ index' = input.zip.index
    /\ frag' = input.zip.chart
    /\ pc' = "check_index"
    /\ UNCHANGED <<exitCode, input, outZip, entries, passes, prev, call, result>>

\* lines 126-130: index.html must be there
CheckIndex ==
    /\ pc = "check_index"
    /\ IF index # NoFile
       THEN pc' = "tables" /\ exitCode' = exitCode
       ELSE pc' = "aborted" /\ exitCode' = 1
    /\ UNCHANGED <<input, index, frag, outZip, entries, passes, prev, call, result>>

\* lines 133-189: the table loop; an exception in it ends the run before
\* index.html is written back
RunTablePatch ==
    /\ pc = "tables"
    /\ IF patch_tables(index).raised
       THEN pc' = "raised" /\ exitCode' = 1 /\ index' = index
       ELSE pc' = "narrative" /\ exitCode' = exitCode /\ index' = patch_tables(index).doc
    /\ UNCHANGED <<input, frag, outZip, entries, passes, prev, call, result>>

\* lines 192-210
RunNarrativePatch ==
    /\ pc = "narrative"
    /\ index' = patch_narrative(index)
    /\ pc' = "charts"
    /\ UNCHANGED <<exitCode, input, frag, outZip, entries, passes, prev, call, result>>

\* lines 264-267: every fragment of charts/, when there is such a directory
RunChartPatch ==
    /\ pc = "charts"
    /\ frag' = IF frag = NoFile THEN frag ELSE patch_chart(frag)
    /\ pc' = "unlink"
    /\ UNCHANGED <<exitCode, input, index, outZip, entries, passes, prev, call, result>>

\* line 270
Unlink ==
    /\ pc = "unlink"
    /\ outZip' = "absent"
    /\ pc' = "open"
    /\ UNCHANGED <<exitCode, input, index, frag, entries, passes, prev, call, result>>

\* line 271: the archive is created at its final path
OpenZip ==
    /\ pc = "open"
    /\ outZip' = "partial"
    /\ entries' = <<>>
    /\ pc' = "write"
    /\ UNCHANGED <<exitCode, input, index, frag, passes, prev, call, result>>

WorkFiles == IF frag = NoFile THEN <<"index.html">> ELSE <<"index.html", "charts">>

\* lines 272-275: one file of the working tree per step
WriteEntry ==
    /\ pc = "write"
    /\ IF Len(entries) < Len(WorkFiles)
       THEN entries' = Append(entries, WorkFiles[Len(entries) + 1]) /\ pc' = pc
       ELSE entries' = entries /\ pc' = "close"
    /\ UNCHANGED <<exitCode, input, index, frag, outZip, passes, prev, call, result>>

\* the end of the with block and line 276
CloseZip ==
    /\ pc = "close"
    /\ outZip' = "new"
    /\ pc' = "built"
    /\ exitCode' = 0
    /\ UNCHANGED <<input, index, frag, entries, passes, prev, call, result>>

IOSteps == {"extract", "unlink", "open", "write", "close"}

\* a file operation of the step fails (unreadable archive, full disk): the
\* exception is caught nowhere
IOError ==
    /\ pc \in IOSteps
    /\ pc' = "io_error"
    /\ exitCode' = 1
    /\ UNCHANGED <<input, index, frag, outZip, entries, passes, prev, call, result>>

Next ==
    \/ CheckBaseline
    \/ Extract
    \/ CheckIndex
    \/ RunTablePatch
    \/ RunNarrativePatch
    \/ RunChartPatch
    \/ Unlink
    \/ OpenZip
    \/ WriteEntry
    \/ CloseZip
    \/ IOError

Spec == Init /\ [][Next]_vars

\* ----------------------------------------------------------- SpecTable
\* The Table Patcher alone, run again and again on its own output; prev is
\* the document the latest pass started from.

InitTable ==
    /\ pc = "tables"
    /\ exitCode = Running
    /\ input = NoFile
    /\ index \in { MkDoc(t, NoKey, <<>>) : t \in Tables }
    /\ frag = NoFile
    /\ outZip = "absent"
    /\ entries = <<>>
    /\ passes = 0
    /\ prev = NoFile
    /\ call = NoFile
    /\ result = NoFile

TablePass ==
    /\ pc = "tables"
    /\ passes < MaxPasses
    /\ IF patch_tables(index).raised
       THEN pc' = "raised" /\ exitCode' = 1 /\ UNCHANGED <<index, prev, passes>>
       ELSE /\ index' = patch_tables(index).doc
            /\ prev' = index
            /\ passes' = passes + 1
            /\ UNCHANGED <<pc, exitCode>>
    /\ UNCHANGED <<input, frag, outZip, entries, call, result>>

NextTable == TablePass

SpecTable == InitTable /\ [][NextTable]_vars

\* ----------------------------------------------------------- SpecChart
\* patch_chart on one fragment; prev is the fragment as it was.

InitChart ==
    /\ pc = "charts"
    /\ exitCode = Running
    /\ input = NoFile
    /\ index = NoFile
    /\ frag \in Fragments
    /\ outZip = "absent"
    /\ entries = <<>>
    /\ passes = 0
    /\ prev = NoFile
    /\ call = NoFile
    /\ result = NoFile

ChartPass ==
    /\ pc = "charts"
    /\ frag' = patch_chart(frag)
    /\ prev' = frag
    /\ pc' = "patched"
    /\ UNCHANGED <<exitCode, input, index, outZip, entries, passes, call, result>>

NextChart == ChartPass

SpecChart == InitChart /\ [][NextChart]_vars

\* --------------------------------------------------------- SpecResolve
\* The first lines of the row loop on one label: the resolved key and the
\* polarity the row's annotations will use.

UnknownLabels == { <<"G","D","P"," ","G","r","o","w","t","h">>, <<"D","J","I","A"," ","I","n","d","e","x">>, <<"M","i","l","k">>, <<"a","v","g"," ","h","o","m","e"," ","p","r","i","c","e">>, <<"H","o","m","e"," ","P","r","i","c","e","-","t","o","-","I","n","c","o","m","e"," ","R","a","t","i","o">>, <<>> }

BaseLabels ==
    { SEPT[i].k : i \in 1..Len(SEPT) } \cup { ALIASES[i].k : i \in 1..Len(ALIASES) }
    \cup UnknownLabels

Upper(s) == [i \in 1..Len(s) |-> UpperChar(s[i])]

Spaces(k) == [i \in 1..k |-> " "]

\* s with k more blanks at every blank, k blanks in front and k tabs behind
RECURSIVE WidenInner(_, _)
WidenInner(s, k) ==
    IF s = <<>> THEN <<>>
    ELSE (IF Head(s) = " " THEN Spaces(k + 1) ELSE <<Head(s)>>) \o WidenInner(Tail(s), k)

Widen(s, k) == Spaces(k) \o WidenInner(s, k) \o [i \in 1..k |-> "TAB"]

\* the spellings of a label that differ from it in case or whitespace only
Respellings(s) == { s, Upper(s) } \cup { Widen(s, k) : k \in 1..MaxPad } \cup { Upper(Widen(s, k)) : k \in 1..MaxPad }

InitResolve ==
    /\ pc = "row"
    /\ exitCode = Running
    /\ input = NoFile
    /\ index = NoFile
    /\ frag = NoFile
    /\ outZip = "absent"
    /\ entries = <<>>
    /\ passes = 0
    /\ prev = NoFile
    /\ call \in { [label |-> l] : l \in UNION { Respellings(b) : b \in BaseLabels } }
    /\ result = NoFile

\* lines 165-166, and the polarity of lines 175 and 185
ResolveRow ==
    /\ pc = "row"
    /\ result' = [key |-> map_key(norm(get_text(call.label))),
                  polarity |-> RowPolarity(get_text(call.label))]
    /\ pc' = "resolved"
    /\ UNCHANGED <<exitCode, input, index, frag, outZip, entries, passes, prev, call>>

NextResolve == ResolveRow

SpecResolve == InitResolve /\ [][NextResolve]_vars

\* -------------------------------------------------------- SpecAnnotate
\* The two annotations on one new value and one prior cell text.

PriorTexts == {
    <<"6",".","0">>, <<"6",".","5">>, <<"6",".","5","0","0","0","0","0","0","0","0","1">>, <<"6",".","4","9","9","9","9","9","9","9","9","9">>, DASH, <<>>, <<"n","/","a">>,
    <<"$","4","0","0",",","0","0","0">>, <<"4","5",",","6","2","1",".","2","9">>, <<"GREEN"," ","4","4",",","0","0","0",".","5">>, <<"9","7",".","4">>, <<"-","3",".","2","8">> }

InitAnnotate ==
    /\ pc = "annotate"
    /\ exitCode = Running
    /\ input = NoFile
    /\ index = NoFile
    /\ frag = NoFile
    /\ outZip = "absent"
    /\ entries = <<>>
    /\ passes = 0
    /\ prev = NoFile
    /\ call \in { [val |-> SEPT[i].v, prior |-> p, gwd |-> g] :
                  i \in 1..Len(SEPT), p \in PriorTexts, g \in BOOLEAN }
    /\ result = NoFile

\* lines 170-176
ValueCell ==
    /\ pc = "annotate"
    /\ result' = AnnotateValue(call.val, parse_num(get_text(call.prior)), call.gwd)
    /\ pc' = "value"
    /\ UNCHANGED <<exitCode, input, index, frag, outZip, entries, passes, prev, call>>

\* lines 179-187, the latest value read back from the cell line 176 wrote
OverallCell ==
    /\ pc = "value"
    /\ result' = AnnotateDelta(parse_num(get_text(result)), parse_num(get_text(call.prior)), call.gwd)
    /\ pc' = "overall"
    /\ UNCHANGED <<exitCode, input, index, frag, outZip, entries, passes, prev, call>>

NextAnnotate == ValueCell \/ OverallCell

SpecAnnotate == InitAnnotate /\ [][NextAnnotate]_vars

\* --------------------------------------------------------------- claims
\* What the specification says, written without the code's operators where
\* the two could differ.

\* the emoji rule of the Trend Annotator: neutral overrides below 1e-9
SpecEmoji(delta, goodWhenDown) ==
    IF AbsBelowEps(delta) THEN "NEUTRAL"
    ELSE IF IsNeg(delta) = goodWhenDown THEN "GREEN"
    ELSE "RED"

SpecAnnotateValue(newValue, priorValue, goodWhenDown) ==
    <<IF priorValue = NoNum THEN "NEUTRAL" ELSE SpecEmoji(Sub(newValue, priorValue), goodWhenDown),
      " ">> \o fmt(newValue)

SpecAnnotateDelta(latestValue, baselineValue, goodWhenDown) ==
    IF latestValue = NoNum \/ baselineValue = NoNum THEN DASH
    ELSE LET diff == Sub(latestValue, baselineValue)
         IN  <<SpecEmoji(diff, goodWhenDown), " ">>
                 \o (IF IsPos(diff) THEN <<"+">> ELSE <<>>) \o fmt(diff)

\* resolve(): the canonical name with the label's normal form, else the alias
SpecResolveKey(lbl) ==
    LET n == norm(lbl)
    IN  IF \E i \in 1..Len(SEPT) : norm(SEPT[i].k) = n
        THEN SEPT[CHOOSE i \in 1..Len(SEPT) : norm(SEPT[i].k) = n].k
        ELSE IF \E i \in 1..Len(ALIASES) : ALIASES[i].k = n
        THEN ALIASES[CHOOSE i \in 1..Len(ALIASES) : ALIASES[i].k = n].v
        ELSE NoKey

\* the column of header h, counted from 1; 0 when there is none
Column(t, h) == HeaderIndex(HeaderTexts(t), h) + 1

OverallColumn(t) == OverallIndex(HeaderTexts(t)) + 1

\* a well-formed indicator table whose rows have one td per header cell
Aligned(t) ==
    /\ IsIndicatorTable(t)
    /\ t.headerTr /\ t.tbody /\ ~t.labelTh
    /\ \A r \in 1..Len(t.rows) : Len(t.rows[r]) = Len(t.headers)

\* the polarity of a row by its canonical name, by its label when it has none
SpecPolarity(lbl) ==
    IF SpecResolveKey(lbl) # NoKey THEN good_when_down(SpecResolveKey(lbl))
    ELSE good_when_down(lbl)

FirstPassDone == pc = "tables" /\ passes = 1 /\ Aligned(prev.table)

\* C1: after one pass over an aligned indicator table, every row whose label
\* resolves to an indicator with value v holds "<emoji> <fmt(v)>" in the
\* column of the "Sep 1" header, the emoji taken from the row's "Aug 1" cell
\* and neutral when the table has no "Aug 1" column.
C1_SepCellAnnotated ==
    FirstPassDone =>
        \A r \in 1..Len(prev.table.rows) :
            LET before == prev.table.rows[r]
                c == SpecResolveKey(before[1])
                aug == Column(prev.table, AUG)
                prior == IF aug = 0 THEN NoNum ELSE parse_num(before[aug])
            IN  c # NoKey =>
                    index.table.rows[r][Column(index.table, SEP)]
                        = SpecAnnotateValue(SeptValue(c), prior, good_when_down(c))

\* C2: a second pass changes nothing, and after any number of passes an
\* indicator table has exactly one "Sep 1" header cell and its rows still
\* have one cell per header cell.
C2_Idempotent ==
    /\ (pc = "tables" /\ passes >= 2) => index = prev
    /\ (pc = "tables" /\ passes >= 1 /\ Aligned(prev.table)) =>
           /\ Cardinality({ i \in 1..Len(index.table.headers) : HeaderTexts(index.table)[i] = SEP }) = 1
           /\ \A r \in 1..Len(index.table.rows) :
                  Len(index.table.rows[r]) = Len(index.table.headers)

\* C4: after one pass, every row of a table with an "Overall" column holds
\* annotateDelta(latest, baseline) under that header, latest parsed from the
\* row's "Sep 1" cell and baseline from its "Feb 1" cell (column 1 when the
\* table has no "Feb 1" header), whether or not the label resolved.
C4_OverallRecomputed ==
    (FirstPassDone /\ OverallColumn(index.table) # 0) =>
        \A r \in 1..Len(index.table.rows) :
            LET row == index.table.rows[r]
                feb == IF Column(index.table, FEB) # 0 THEN Column(index.table, FEB) ELSE 2
            IN  row[OverallColumn(index.table)]
                    = SpecAnnotateDelta(parse_num(row[Column(index.table, SEP)]),
                                        parse_num(row[feb]),
                                        SpecPolarity(prev.table.rows[r][1]))

\* C5: the marker of the value annotation and of the Overall delta is neutral
\* when the prior value is missing or abs(delta) < 1e-9, otherwise good
\* exactly when (delta < 0) equals goodWhenDown, and bad in the remaining case.
C5_EmojiRule ==
    /\ pc = "value" =>
           result = SpecAnnotateValue(call.val, parse_num(call.prior), call.gwd)
    /\ (pc = "overall" /\ parse_num(call.prior) # NoNum) =>
           result[1] = SpecEmoji(Sub(parse_num(fmt(call.val)), parse_num(call.prior)), call.gwd)

\* C8: a label resolves to the canonical name with its normal form if there
\* is one, else to its alias target, else to nothing; the result is nothing
\* or a key of SEPT; every respelling in case or whitespace resolves alike.
C8_Resolver ==
    pc = "resolved" =>
        /\ result.key = SpecResolveKey(call.label)
        /\ result.key = NoKey \/ InSEPT(result.key)
        /\ \A v \in Respellings(call.label) : map_key(norm(v)) = result.key

\* C8, reached: a respelled alias has resolved to its canonical name
C8_AliasResolved ==
    /\ pc = "resolved"
    /\ call.label = <<" ","A","V","E","R","A","G","E"," "," ","H","O","M","E"," "," ","P","R","I","C","E"," "," ","(","$",")","TAB">>
    /\ result.key = <<"A","v","g"," ","H","o","m","e"," ","P","r","i","c","e"," ","(","$",")">>

\* C9: the polarity a row's annotations use is isGoodWhenDown of the
\* canonical name the row's label resolves to.
C9_PolarityOfCanonical ==
    (pc = "resolved" /\ result.key # NoKey) =>
        result.polarity = good_when_down(result.key)

\* how a script engine reads an array literal: commas inside quotes do not
\* separate, and a backslash quotes the character after it
RECURSIVE JsItems(_, _, _, _)
JsItems(s, i, q, item) ==
    IF i > Len(s) THEN <<item>>
    ELSE IF q # "" /\ s[i] = BACKSLASH /\ i < Len(s)
    THEN JsItems(s, i + 2, q, item \o <<s[i], s[i + 1]>>)
    ELSE IF q # "" /\ s[i] = q THEN JsItems(s, i + 1, "", item \o <<s[i]>>)
    ELSE IF q = "" /\ s[i] \in {"'", QUOTE} THEN JsItems(s, i + 1, s[i], item \o <<s[i]>>)
    ELSE IF q = "" /\ s[i] = "," THEN <<item>> \o JsItems(s, i + 1, "", <<>>)
    ELSE JsItems(s, i + 1, q, item \o <<s[i]>>)

JsValue(item) ==
    LET s == Strip(item)
    IN  IF s = <<"n","u","l","l">> THEN JsNull
        ELSE IF s # <<>> /\ Head(s) \in {"'", QUOTE}
        THEN JsStr(ReplaceAll(SubSeq(s, 2, Len(s) - 1), <<BACKSLASH, QUOTE>>, <<QUOTE>>))
        ELSE IF IsFloatText(s) THEN JsNum(FloatOf(s))
        ELSE JsStr(s)

JsRead(text) ==
    LET outer == Strip(text)
        inner == Strip(SubSeq(outer, 2, Len(outer) - 1))
    IN  IF inner = <<>> THEN <<>>
        ELSE LET items == JsItems(inner, 1, "", <<>>)
             IN  [i \in 1..Len(items) |-> JsValue(items[i])]

BothDeclared(f) == f.labels # NoDecl /\ f.actual # NoDecl

ChartPatched == pc = "patched" /\ BothDeclared(prev)

\* C3: after patch_chart on a fragment with both declarations, the labels
\* and the actual sequence have the same length, whatever their lengths were.
C3_SameLength ==
    ChartPatched => Len(JsRead(frag.labels)) = Len(JsRead(frag.actual))

\* C10: after patch_chart the actual element at the index of the "Sep 1"
\* label is the new value of the file's indicator, every label that was
\* there is still there with the same value at the same place, and so is
\* every actual element of another period.
C10_OnlyNewPoint ==
    ChartPatched =>
        LET labels0 == JsRead(prev.labels)
            actual0 == JsRead(prev.actual)
            labels1 == JsRead(frag.labels)
            actual1 == JsRead(frag.actual)
            IsSep(j) == j <= Len(labels1) /\ labels1[j] = JsStr(SEP)
        IN  /\ \A j \in 1..Len(labels1) :
                   (IsSep(j) /\ ChartValue(prev.name) # JsNull) =>
                       (j <= Len(actual1) /\ actual1[j] = ChartValue(prev.name))
            /\ Len(labels1) \in {Len(labels0), Len(labels0) + 1}
            /\ SubSeq(labels1, 1, Len(labels0)) = labels0
            /\ \A j \in 1..Len(actual0) :
                   ~IsSep(j) => (j <= Len(actual1) /\ actual1[j] = actual0[j])

Failed == pc \in {"aborted", "raised", "io_error"}

BeforePackaging == pc \in {"start", "extract", "check_index", "tables", "narrative", "charts", "unlink"}

\* C6: the output archive is untouched until every patch is done, and a run
\* that fails at any step leaves an archive that was there as it was.
C6_ArchiveSafe ==
    /\ BeforePackaging => outZip = input.out
    /\ (Failed /\ input.out = "old") => outZip = "old"

\* C7: only a missing baseline archive or a missing index.html ends the run
\* abnormally, with a non-zero exit; every other input is patched through.
C7_OnlyFailFast ==
    pc \in {"aborted", "raised"} =>
        /\ exitCode # 0
        /\ ~input.zip.exists \/ input.zip.index = NoFile

====
